---- MODULE Spec2Model ----
(***************************************************************************)
(* A model of medacy.model.model.Model: preprocess (synchronous and        *)
(* asynchronous), cross_validate with its two span-reconstruction loops,   *)
(* the per-fold statistics, their aggregation and the writing of the       *)
(* prediction / groundtruth annotation directories.                        *)
(*                                                                         *)
(* Python lists are sequences.  Python indices are 0-based: the model      *)
(* keeps the Python value of every index variable (i, fold, ...) and reads *)
(* a list through Py(list, k), which is list[k] of the source.             *)
(***************************************************************************)
EXTENDS Integers, Sequences, FiniteSets, TLC

\* ------------------------------------------------------------------ bounds

\* Largest number of tokens of a dataset in the cross-validation runs.
MaxTokens == 3
\* Largest number of tokens of a test stream in the scan of one stream.
ScanMaxTokens == 4
\* Largest number of data files of a dataset in the runs of preprocess.
MaxFiles == 3
\* Largest num_folds of the cross-validation runs.
MaxFolds == 3

\* ------------------------------------------------------------ plain helpers

None == "None"

Max(a, b) == IF a >= b THEN a ELSE b

\* list[k] of the source (0-based).  An index outside the list is Python's
\* IndexError; the reads of the model are counted by the callers (top).
Py(list, k) == IF k + 1 \in DOMAIN list THEN list[k + 1] ELSE "IndexError"

Last(s) == s[Len(s)]

RECURSIVE SetToSortedSeq(_)
SetToSortedSeq(S) ==
  IF S = {} THEN <<>>
  ELSE LET m == CHOOSE x \in S : \A y \in S : x <= y
       IN <<m>> \o SetToSortedSeq(S \ {m})

\* [element for sentence in nested for element in sentence]
RECURSIVE Flat(_)
Flat(nested) ==
  IF nested = <<>> THEN <<>> ELSE Head(nested) \o Flat(Tail(nested))

\* ---------------------------------------------------------------- datasets

\* The labels the feature extractor gives a token.
Labels == {"O", "A", "B"}

\* The name of the k-th file of a dataset.
FileName(k) == "d" \o ToString(k)

\* The files of the dataset, in the order the Dataset enumerates them.
FileNames == <<FileName(1), FileName(2)>>

\* Character offsets of the t-th token of a document (tokens of two
\* characters separated by a blank).
TokSpan(t) == <<3 * (t - 1), 3 * (t - 1) + 2>>

\* A dataset of two files out of a stream of token labels: the gaps in
\* `breaks` end a sentence, the first b tokens belong to the first file.
BuildDataset(labels, breaks, b) ==
  LET n      == Len(labels)
      cuts   == (breaks \cup {b}) \cap (1..(n - 1))
      starts == IF n = 0 THEN {} ELSE {1} \cup {g + 1 : g \in cuts}
      EndOf(a) == CHOOSE h \in (cuts \cup {n}) :
                     h >= a /\ \A g \in (cuts \cup {n}) : g >= a => h <= g
      Sentences(S) == LET ord == SetToSortedSeq(S)
                      IN [k \in 1..Len(ord) |->
                             SubSeq(labels, ord[k], EndOf(ord[k]))]
  IN << [file_name |-> FileNames[1],
         sentences |-> Sentences({a \in starts : a <= b})],
        [file_name |-> FileNames[2],
         sentences |-> Sentences({a \in starts : a > b})] >>

DataDirectory == "data"

\* A Dataset object: its data_directory and, in the order of its iteration,
\* its data files.  NoDataset stands for None given as the dataset.
Dataset(data_files) == [data_directory |-> DataDirectory, data_files |-> data_files]

NoDataset == [data_directory |-> None, data_files |-> <<>>]

\* The datasets of at most maxTokens tokens with labels of `labels`.
DatasetsOver(labels, maxTokens) ==
  UNION { UNION { { Dataset(BuildDataset(l, S, b)) :
                      S \in SUBSET (1..(n - 1)), b \in 0..n } :
                  l \in [1..n -> labels] } :
          n \in 0..maxTokens }

DatasetsUpTo(maxTokens) == DatasetsOver(Labels, maxTokens)

\* The label of a token no annotation and no default gave a label to.
EmptyLabel == ""

RECURSIVE TokensBefore(_, _)
TokensBefore(sentences, s) ==
  IF s <= 1 THEN 0
  ELSE Len(sentences[s - 1]) + TokensBefore(sentences, s - 1)

\* _extract_features: (features, labels) of one data file.  A feature
\* sequence x is the triple (x[0] token features, x[1] token spans,
\* x[2] file name); the features of a token stand for its position.
ExtractFeatures(data_file) ==
  LET sents == data_file.sentences
      X == [s \in 1..Len(sents) |->
             LET off == TokensBefore(sents, s)
             IN << [k \in 1..Len(sents[s]) |-> off + k],
                   [k \in 1..Len(sents[s]) |-> TokSpan(off + k)],
                   data_file.file_name >>]
  IN [features |-> X, labels |-> sents]

\* ------------------------------------------------------ span reconstruction

VARIABLES
  \* ---- the Model object and the arguments of the running call
  X_data,                   \* self.X_data
  y_data,                   \* self.y_data
  model,                    \* self.model
  training_dataset,         \* the dataset argument, or None
  \* ---- preprocess, step by step
  asynchronous,             \* the asynchronous argument
  ready,                    \* results[k].ready(), per data file
  completed,                \* the data files in the order their workers ended
  collected,                \* how many results the collecting loop has got
  pre_pc,                   \* "idle", "call", "poll", "collect" or "done"
  \* ---- the accumulators of cross_validate
  groundtruth_by_document,  \* document -> list of (entity, start, end)
  preds_by_document,        \* document -> list of (entity, start, end)
  \* ---- one span-reconstruction loop, step by step
  document_indices,         \* the flattened test stream: document per token
  span_indices,             \*                            span per token
  stream,                   \*                            label per token
  target,                   \* "groundtruth" or "predictions": which loop
  i,                        \* the loop index
  top,                      \* highest index of `stream` read so far, or -1
  iters,                    \* iterations of the outer while so far
  scan_pc,                  \* "idle", "scan" or "done"
  \* ---- cross_validate
  pc,                       \* where the call is: "idle", "start", "preprocess",
                            \* "setup", "fold", "write", "returned", "raised"
  num_folds,                \* the arguments
  prediction_directory,
  groundtruth_directory,
  preprocess_calls,         \* calls of self.preprocess so far
  cv_calls,                 \* calls of the fold splitter so far
  learners,                 \* learners got from pipeline.get_learner() so far
  tagset,
  folds,                    \* the (train_indices, test_indices) pairs of cv
  fold,                     \* the fold counter
  y_pred,                   \* the predictions of the fold processed last
  evaluation_statistics,    \* fold -> label -> recall, precision, f1
  statistics_all_folds,     \* label -> the aggregate statistics
  directories,              \* the directories made so far
  files,                    \* the annotation files written so far
  error                     \* the exception the call raised, or None

objVars == <<X_data, y_data, model, training_dataset>>
preVars == <<asynchronous, ready, completed, collected, pre_pc>>
scanVars == <<document_indices, span_indices, stream, target, i, top, iters,
              scan_pc>>
accVars == <<groundtruth_by_document, preds_by_document>>
argVars == <<num_folds, prediction_directory, groundtruth_directory>>
cvVars == <<pc, argVars, preprocess_calls, cv_calls, learners, tagset, folds,
            fold, y_pred, evaluation_statistics, statistics_all_folds,
            directories, files, error>>
vars == <<objVars, preVars, accVars, scanVars, cvVars>>

\* The parts of the state a specification does not use.
IdleObject ==
  /\ X_data = <<>>
  /\ y_data = <<>>
  /\ model = None
  /\ training_dataset = NoDataset

IdlePreprocess ==
  /\ asynchronous = FALSE
  /\ ready = <<>>
  /\ completed = <<>>
  /\ collected = 0
  /\ pre_pc = "idle"

IdleScan ==
  /\ document_indices = <<>>
  /\ span_indices = <<>>
  /\ stream = <<>>
  /\ target = None
  /\ i = 0
  /\ top = -1
  /\ iters = 0
  /\ scan_pc = "idle"

IdleCrossValidate ==
  /\ pc = "idle"
  /\ num_folds = 0
  /\ prediction_directory = None
  /\ groundtruth_directory = None
  /\ preprocess_calls = 0
  /\ cv_calls = 0
  /\ learners = 0
  /\ tagset = <<>>
  /\ folds = <<>>
  /\ fold = 0
  /\ y_pred = <<>>
  /\ evaluation_statistics = <<>>
  /\ statistics_all_folds = <<>>
  /\ directories = {}
  /\ files = {}
  /\ error = None

EmptyByDocument(X) == [filename \in {Py(x, 2) : x \in {X[k] : k \in DOMAIN X}} |-> <<>>]

\* document_indices += [sequence[2] for x in range(len(sequence[0]))]
RECURSIVE DocumentIndices(_)
DocumentIndices(X_test) ==
  IF X_test = <<>> THEN <<>>
  ELSE [x \in 1..Len(Py(Head(X_test), 0)) |-> Py(Head(X_test), 2)]
         \o DocumentIndices(Tail(X_test))

\* span_indices += [element for element in sequence[1]]
RECURSIVE SpanIndices(_)
SpanIndices(X_test) ==
  IF X_test = <<>> THEN <<>>
  ELSE Py(Head(X_test), 1) \o SpanIndices(Tail(X_test))

\* The inner while without its bound on i: labels[i + 1] is read at the
\* last index too.
InnerWhileUnguarded(labels, j, entity) ==
  LET F[k \in 0..Len(labels)] ==
        IF k < Len(labels) /\ Py(labels, k + 1) = entity
          THEN F[k + 1] ELSE [i |-> k, top |-> k + 1]
  IN F[j]

\* The inner while going on over any label other than 'O'.
InnerWhileAnyEntity(labels, j, entity) ==
  LET F[k \in 0..Len(labels)] ==
        IF k < Len(labels) - 1
          THEN IF Py(labels, k + 1) # "O"
                 THEN F[k + 1] ELSE [i |-> k, top |-> k + 1]
          ELSE [i |-> k, top |-> k]
  IN F[j]

\* while i < len(labels) - 1 and labels[i + 1] == entity: i += 1
\* The result: the index the loop ends at, and the highest index it read.
InnerWhile(labels, j, entity) ==
  LET F[k \in 0..Len(labels)] ==
        IF k < Len(labels) - 1
          THEN IF Py(labels, k + 1) = entity
                 THEN F[k + 1] ELSE [i |-> k, top |-> k + 1]
          ELSE [i |-> k, top |-> k]
  IN F[j]

\* One iteration of the outer while at index st.i < len(labels), on the
\* accumulator st.acc.
ScanStep(labels, spans, docs, st) ==
  IF Py(labels, st.i) = "O"
    THEN [i |-> st.i + 1, acc |-> st.acc, top |-> Max(st.top, st.i)]
    ELSE LET entity   == Py(labels, st.i)
             document == Py(docs, st.i)
             first    == Py(spans, st.i)
             run      == InnerWhile(labels, st.i, entity)
             last     == Py(spans, run.i)
         IN [i   |-> run.i + 1,
             acc |-> [st.acc EXCEPT
                        ![document] = Append(@, <<entity, first[1], last[2]>>)],
             top |-> Max(st.top, run.top)]

\* i = 0; while i < len(labels): ...   The accumulator after the loop.
RECURSIVE ScanFrom(_, _, _, _)
ScanFrom(labels, spans, docs, st) ==
  IF st.i < Len(labels)
    THEN ScanFrom(labels, spans, docs, ScanStep(labels, spans, docs, st))
    ELSE st

Reconstruct(labels, spans, docs, acc) ==
  ScanFrom(labels, spans, docs, [i |-> 0, acc |-> acc, top |-> -1]).acc

\* ---- the scan of one stream, one iteration of the outer while per step

ScanInit ==
  \E ds \in DatasetsUpTo(ScanMaxTokens), t \in {"groundtruth", "predictions"} :
    LET X_test == ExtractFeatures(ds.data_files[1]).features
                    \o ExtractFeatures(ds.data_files[2]).features
        y_test == ExtractFeatures(ds.data_files[1]).labels
                    \o ExtractFeatures(ds.data_files[2]).labels
    IN /\ IdleObject
       /\ IdlePreprocess
       /\ IdleCrossValidate
       /\ document_indices = DocumentIndices(X_test)
       /\ span_indices = SpanIndices(X_test)
       /\ stream = Flat(y_test)
       /\ target = t
       /\ groundtruth_by_document = EmptyByDocument(X_test)
       /\ preds_by_document = EmptyByDocument(X_test)
       /\ i = 0
       /\ top = -1
       /\ iters = 0
       /\ scan_pc = "scan"

ScanIterate ==
  /\ scan_pc = "scan"
  /\ i < Len(stream)
  /\ iters <= Len(stream)
  /\ LET acc == IF target = "groundtruth" THEN groundtruth_by_document
                                          ELSE preds_by_document
         st  == ScanStep(stream, span_indices, document_indices,
                         [i |-> i, acc |-> acc, top |-> top])
     IN /\ i' = st.i
        /\ top' = st.top
        /\ IF target = "groundtruth"
             THEN /\ groundtruth_by_document' = st.acc
                  /\ UNCHANGED preds_by_document
             ELSE /\ preds_by_document' = st.acc
                  /\ UNCHANGED groundtruth_by_document
  /\ iters' = iters + 1
  /\ UNCHANGED <<document_indices, span_indices, stream, target, scan_pc>>
  /\ UNCHANGED <<objVars, preVars, cvVars>>

ScanExit ==
  /\ scan_pc = "scan"
  /\ ~(i < Len(stream))
  /\ scan_pc' = "done"
  /\ UNCHANGED <<accVars, document_indices, span_indices, stream, target, i,
                 top, iters>>
  /\ UNCHANGED <<objVars, preVars, cvVars>>

ScanNext == ScanIterate \/ ScanExit

ScanSpec == ScanInit /\ [][ScanNext]_vars

\* ------------------------------------------------------------- preprocess

\* What the sentences of one file are in the runs of preprocess.
FileSentences == {<<>>, << <<"A">> >>, << <<"O", "B">>, <<"A">> >>}

PreDatasets ==
  UNION { { Dataset([k \in 1..n |-> [file_name |-> FileName(k), sentences |-> c[k]]]) :
              c \in [1..n -> FileSentences] } :
          n \in 0..MaxFiles }

\* for data_file in dataset: features, labels = self._extract_features(...);
\* self.X_data += features; self.y_data += labels
RECURSIVE SyncLoop(_, _)
SyncLoop(data_files, acc) ==
  IF data_files = <<>> THEN acc
  ELSE LET r == ExtractFeatures(Head(data_files))
       IN SyncLoop(Tail(data_files),
                   [X |-> acc.X \o r.features, y |-> acc.y \o r.labels])

\* The synchronous branch: both lists are reset, then filled file by file.
PreprocessSynchronous(dataset) ==
  SyncLoop(dataset.data_files, [X |-> <<>>, y |-> <<>>])

\* The results got in the order the workers ended in.
CompletionOrder(dataset, ended) == ended

\* The order `for i in results` gets the results in: that of the list the
\* comprehension over the dataset built, whatever order the workers ended in.
CollectionOrder(dataset, ended) == [k \in 1..Len(dataset.data_files) |-> k]

\* for i in results: X, y = i.get(); self.X_data += X; self.y_data += y
RECURSIVE CollectLoop(_, _, _)
CollectLoop(data_files, order, acc) ==
  IF order = <<>> THEN acc
  ELSE LET r == ExtractFeatures(data_files[Head(order)])
       IN CollectLoop(data_files, Tail(order),
                      [X |-> acc.X \o r.features, y |-> acc.y \o r.labels])

\* The asynchronous branch, the workers having ended in the order `ended`.
PreprocessAsynchronous(dataset, ended) ==
  CollectLoop(dataset.data_files, CollectionOrder(dataset, ended),
              [X |-> <<>>, y |-> <<>>])

\* ---- preprocess, step by step

PreInit ==
  /\ X_data = <<>>
  /\ y_data = <<>>
  /\ model = None
  /\ training_dataset \in PreDatasets
  /\ asynchronous \in BOOLEAN
  /\ ready = <<>>
  /\ completed = <<>>
  /\ collected = 0
  /\ pre_pc = "call"
  /\ groundtruth_by_document = <<>>
  /\ preds_by_document = <<>>
  /\ IdleScan
  /\ IdleCrossValidate

\* preprocess(dataset, asynchronous=False)
PreprocessSync ==
  /\ pre_pc = "call"
  /\ ~asynchronous
  /\ X_data' = PreprocessSynchronous(training_dataset).X
  /\ y_data' = PreprocessSynchronous(training_dataset).y
  /\ pre_pc' = "done"
  /\ UNCHANGED <<model, training_dataset, asynchronous, ready, completed,
                 collected, accVars, scanVars, cvVars>>

\* preprocess(dataset, asynchronous=True) up to the polling loop: the lists
\* are reset and one task per data file is handed to the pool.
PreprocessAsyncStart ==
  /\ pre_pc = "call"
  /\ asynchronous
  /\ X_data' = <<>>
  /\ y_data' = <<>>
  /\ ready' = [k \in 1..Len(training_dataset.data_files) |-> FALSE]
  /\ completed' = <<>>
  /\ collected' = 0
  /\ pre_pc' = "poll"
  /\ UNCHANGED <<model, training_dataset, asynchronous, accVars, scanVars, cvVars>>

\* The worker of the k-th data file ends.
WorkerEnds(k) ==
  /\ pre_pc = "poll"
  /\ ~ready[k]
  /\ ready' = [ready EXCEPT ![k] = TRUE]
  /\ completed' = Append(completed, k)
  /\ UNCHANGED <<objVars, asynchronous, collected, pre_pc, accVars, scanVars, cvVars>>

\* while any([i.ready() is False for i in results]): time.sleep(1)
PollExit ==
  /\ pre_pc = "poll"
  /\ ~(\E k \in DOMAIN ready : ready[k] = FALSE)
  /\ pre_pc' = "collect"
  /\ UNCHANGED <<objVars, asynchronous, ready, completed, collected, accVars,
                 scanVars, cvVars>>

\* One iteration of `for i in results`; i.get() returns a ready result.
Collect ==
  /\ pre_pc = "collect"
  /\ collected < Len(training_dataset.data_files)
  /\ LET k == CollectionOrder(training_dataset, completed)[collected + 1]
         r == ExtractFeatures(training_dataset.data_files[k])
     IN /\ ready[k]
        /\ X_data' = X_data \o r.features
        /\ y_data' = y_data \o r.labels
  /\ collected' = collected + 1
  /\ UNCHANGED <<model, training_dataset, asynchronous, ready, completed,
                 pre_pc, accVars, scanVars, cvVars>>

CollectExit ==
  /\ pre_pc = "collect"
  /\ collected = Len(training_dataset.data_files)
  /\ pre_pc' = "done"
  /\ UNCHANGED <<objVars, asynchronous, ready, completed, collected, accVars,
                 scanVars, cvVars>>

\* The next call of preprocess on the same object, X_data and y_data being
\* what the call before left.
PreprocessAgain ==
  /\ pre_pc = "done"
  /\ training_dataset' \in PreDatasets
  /\ asynchronous' \in BOOLEAN
  /\ pre_pc' = "call"
  /\ UNCHANGED <<X_data, y_data, model, ready, completed, collected, accVars,
                 scanVars, cvVars>>

PreNext ==
  \/ PreprocessSync
  \/ PreprocessAsyncStart
  \/ \E k \in DOMAIN ready : WorkerEnds(k)
  \/ PollExit
  \/ Collect
  \/ CollectExit
  \/ PreprocessAgain

PreSpec == PreInit /\ [][PreNext]_vars

\* ----------------------------------------------------------- cross_validate

\* Values of prediction_directory and groundtruth_directory: None, True or
\* a path.
IsStr(v) == v \notin {None, "True"}

\* Python's truth value of such an argument.
Truthy(v) == v \notin {None, ""}

\* os.path.join(a, b)
PathJoin(a, b) == a \o "/" \o b

\* The checks of the arguments without the one of groundtruth_directory.
ArgumentErrorNoGroundtruthCheck(folds_arg, dataset, pred_dir, gt_dir) ==
  IF folds_arg <= 1 THEN "ValueError"
  ELSE IF pred_dir # None /\ dataset = NoDataset THEN "ValueError"
  ELSE None

\* The exception the checks of the arguments raise, or None.
ArgumentError(folds_arg, dataset, pred_dir, gt_dir) ==
  IF folds_arg <= 1 THEN "ValueError"
  ELSE IF pred_dir # None /\ dataset = NoDataset THEN "ValueError"
  ELSE IF gt_dir # None /\ dataset = NoDataset THEN "ValueError"
  ELSE None

\* The labels in sorted order ('' < 'A' < 'B' < 'O').
LabelOrder == <<"", "A", "B", "O">>

\* tagset: the sorted list of the labels of Y_data other than 'O' and ''.
Tagset(Y_data) ==
  LET found == {tag \in UNION {{tags[k] : k \in DOMAIN tags} :
                                 tags \in {Y_data[k] : k \in DOMAIN Y_data}} :
                  tag # "O" /\ tag # ""}
      In(tag) == tag \in found
  IN SelectSeq(LabelOrder, In)

\* [data[index] for index in indices]
Pick(data, indices) == [k \in 1..Len(indices) |-> Py(data, indices[k])]

\* cv(X_data, Y_data): the pairs (train_indices, test_indices) of the fold
\* splitter for K folds: every sequence is in the test set of one fold, no
\* test set is empty, and the train set of a fold is the rest.  The folds
\* come in the order of their least test index.  With fewer sequences than
\* folds the splitter fails (the empty set here).
CVFolds(X, K) ==
  LET idx == 0..(Len(X) - 1)
      Least(f, k) == CHOOSE n \in idx : f[n] = k /\ \A m \in idx : f[m] = k => n <= m
  IN { [k \in 1..K |->
          [train |-> SetToSortedSeq({n \in idx : a[n] # k}),
           test  |-> SetToSortedSeq({n \in idx : a[n] = k})]] :
       a \in {f \in [idx -> 1..K] :
                /\ \A k \in 1..K : \E n \in idx : f[n] = k
                /\ \A k \in 1..(K - 1) : Least(f, k) < Least(f, k + 1)} }

\* A flat list of labels cut into sequences of the lengths of test_data.
RECURSIVE Unflatten(_, _)
Unflatten(flat, test_data) ==
  IF test_data = <<>> THEN <<>>
  ELSE <<SubSeq(flat, 1, Len(Head(test_data)))>>
         \o Unflatten(SubSeq(flat, Len(Head(test_data)) + 1, Len(flat)),
                      Tail(test_data))

\* learner.fit(train_data, y_train); learner.predict(test_data): one label
\* sequence per test sequence, of its length, of labels met in training.
LearnerPredictions(y_train, test_data) ==
  LET alphabet == {Flat(y_train)[k] : k \in DOMAIN Flat(y_train)}
      n == Len(Flat(test_data))
  IN {Unflatten(flat, test_data) : flat \in [1..n -> alphabet]}

\* ---- the metrics of a fold, in thousandths

RECURSIVE SumSeq(_)
SumSeq(values) ==
  IF values = <<>> THEN 0 ELSE Head(values) + SumSeq(Tail(values))

\* The score of one label: name is "recall", "precision" or "f1".
LabelScore(name, y_true, y_predicted, label) ==
  LET yt == Flat(y_true)
      yp == Flat(y_predicted)
      tp == Cardinality({k \in DOMAIN yt : yt[k] = label /\ yp[k] = label})
      support   == Cardinality({k \in DOMAIN yt : yt[k] = label})
      predicted == Cardinality({k \in DOMAIN yp : yp[k] = label})
      Ratio(a, b) == IF b = 0 THEN 0 ELSE (1000 * a) \div b
  IN CASE name = "recall"    -> Ratio(tp, support)
       [] name = "precision" -> Ratio(tp, predicted)
       [] name = "f1"        -> Ratio(2 * tp, support + predicted)

\* metrics.flat_<name>_score(y_test, y_pred, average='weighted', labels=labels):
\* the labels' scores weighted by their support in y_test.
FlatScore(name, y_true, y_predicted, labels) ==
  LET yt == Flat(y_true)
      Support(label) == Cardinality({k \in DOMAIN yt : yt[k] = label})
      weights == [k \in DOMAIN labels |-> Support(labels[k])]
      terms == [k \in DOMAIN labels |->
                  weights[k] * LabelScore(name, y_true, y_predicted, labels[k])]
  IN IF SumSeq(weights) = 0 THEN 0 ELSE SumSeq(terms) \div SumSeq(weights)

\* fold_statistics: one row per label of the tagset, and the row 'system'.
FoldStatistics(tags, y_test, y_predicted) ==
  [label \in {tags[k] : k \in DOMAIN tags} \cup {"system"} |->
     LET labels == IF label = "system" THEN tags ELSE <<label>>
     IN [recall    |-> FlatScore("recall", y_test, y_predicted, labels),
         precision |-> FlatScore("precision", y_test, y_predicted, labels),
         f1        |-> FlatScore("f1", y_test, y_predicted, labels)]]

\* ---- the statistics of all folds

\* evaluation_statistics[fold][label][name] for fold in evaluation_statistics
FoldValues(statistics, label, name) ==
  [f \in DOMAIN statistics |-> statistics[f][label][name]]

\* statistics.mean: the exact quotient, kept as numerator and denominator.
Mean(values) == [num |-> SumSeq(values), den |-> Len(values)]

MaxOf(values) ==
  CHOOSE v \in {values[k] : k \in DOMAIN values} :
    \A k \in DOMAIN values : values[k] <= v

\* The value of the first fold taken for the minimum.
MinOfFirstFold(values) == values[1]

MinOf(values) ==
  CHOOSE v \in {values[k] : k \in DOMAIN values} :
    \A k \in DOMAIN values : v <= values[k]

StatisticsAllFolds(tags, statistics) ==
  [label \in {tags[k] : k \in DOMAIN tags} \cup {"system"} |->
     [precision_average |-> Mean(FoldValues(statistics, label, "precision")),
      precision_max     |-> MaxOf(FoldValues(statistics, label, "precision")),
      precision_min     |-> MinOf(FoldValues(statistics, label, "precision")),
      recall_average    |-> Mean(FoldValues(statistics, label, "recall")),
      recall_max        |-> MaxOf(FoldValues(statistics, label, "recall")),
      f1_average        |-> Mean(FoldValues(statistics, label, "f1")),
      f1_max            |-> MaxOf(FoldValues(statistics, label, "f1")),
      f1_min            |-> MinOf(FoldValues(statistics, label, "f1"))]]

\* ---- the annotation directories

\* create_annotation_directory: the directory, and the directories there
\* are after the call.
CreateAnnotationDirectory(directory, dataset, option, existing) ==
  LET dir == IF IsStr(directory) THEN directory
             ELSE dataset.data_directory \o "/" \o option \o "/"
  IN [directory |-> dir, directories |-> existing \cup {dir}]

\* predict_annotation_evaluation: one file per data file of the dataset, in
\* its order, until a document is not a key of the mapping (KeyError).
RECURSIVE PredictAnnotationEvaluation(_, _, _, _, _, _)
PredictAnnotationEvaluation(directory, data_files, predictions, groundtruth, option, written) ==
  IF data_files = <<>> THEN [files |-> written, error |-> None]
  ELSE LET name == Head(data_files).file_name
           by_document == IF option = "groundtruth" THEN groundtruth
                                                    ELSE predictions
           path == PathJoin(directory, name \o ".ann")
       IN IF name \notin DOMAIN by_document
            THEN [files |-> written, error |-> "KeyError"]
            ELSE PredictAnnotationEvaluation(directory, Tail(data_files),
                   predictions, groundtruth, option,
                   {f \in written : f.path # path}
                     \cup {[path |-> path, directory |-> directory,
                            option |-> option, document |-> name,
                            annotations |-> by_document[name]]})

\* ---- cross_validate, step by step

\* What an earlier fit or preprocess of another dataset left in the object.
EarlierData ==
  ExtractFeatures([file_name |-> "earlier", sentences |-> << <<"A", "O">> >>])

\* prediction_directory: None, True (the default sub-directory) or a path;
\* groundtruth_directory: None or a path.
PredictionDirectoryArguments == {None, "True", "out/predictions"}
GroundtruthDirectoryArguments == {None, "out/groundtruth"}

\* The state at the call of cross_validate on one of `datasets`.
InitWith(datasets) ==
  /\ \E left \in {[features |-> <<>>, labels |-> <<>>], EarlierData} :
       /\ X_data = left.features
       /\ y_data = left.labels
  /\ model = None
  /\ training_dataset \in datasets
  /\ num_folds \in 1..MaxFolds
  /\ prediction_directory \in PredictionDirectoryArguments
  /\ groundtruth_directory \in GroundtruthDirectoryArguments
  /\ pc = "start"
  /\ preprocess_calls = 0
  /\ cv_calls = 0
  /\ learners = 0
  /\ tagset = <<>>
  /\ folds = <<>>
  /\ fold = 0
  /\ y_pred = <<>>
  /\ evaluation_statistics = <<>>
  /\ statistics_all_folds = <<>>
  /\ directories = {}
  /\ files = {}
  /\ error = None
  /\ groundtruth_by_document = <<>>
  /\ preds_by_document = <<>>
  /\ IdlePreprocess
  /\ IdleScan

Init == InitWith({NoDataset} \cup DatasetsUpTo(MaxTokens))

\* The calls on datasets in which tokens may also hold the empty label.
EmptyLabelInit ==
  InitWith({NoDataset} \cup DatasetsOver(Labels \cup {EmptyLabel}, MaxTokens))

\* The checks of the arguments.
CheckArguments ==
  /\ pc = "start"
  /\ LET e == ArgumentError(num_folds, training_dataset, prediction_directory,
                            groundtruth_directory)
     IN /\ error' = e
        /\ pc' = IF e = None THEN "preprocess" ELSE "raised"
  /\ UNCHANGED <<objVars, preVars, accVars, scanVars, argVars, preprocess_calls,
                 cv_calls, learners, tagset, folds, fold, y_pred,
                 evaluation_statistics, statistics_all_folds, directories, files>>

\* self.preprocess(training_dataset, asynchronous), in either mode and with
\* the workers ending in any order.  Iterating None raises TypeError after
\* the lists were reset.
Preprocess ==
  /\ pc = "preprocess"
  /\ preprocess_calls' = preprocess_calls + 1
  /\ IF training_dataset = NoDataset
       THEN /\ X_data' = <<>>
            /\ y_data' = <<>>
            /\ error' = "TypeError"
            /\ pc' = "raised"
       ELSE /\ \E mode \in BOOLEAN,
                  ended \in {[k \in DOMAIN training_dataset.data_files |-> k],
                             [k \in DOMAIN training_dataset.data_files |->
                                Len(training_dataset.data_files) + 1 - k]} :
                 LET r == IF mode
                            THEN PreprocessAsynchronous(training_dataset, ended)
                            ELSE PreprocessSynchronous(training_dataset)
                 IN /\ X_data' = r.X
                    /\ y_data' = r.y
            /\ error' = None
            /\ pc' = "setup"
  /\ UNCHANGED <<model, training_dataset, preVars, accVars, scanVars, argVars,
                 cv_calls, learners, tagset, folds, fold, y_pred,
                 evaluation_statistics, statistics_all_folds, directories, files>>

\* From the assertion to the call of the fold splitter: the tagset, the two
\* accumulators, the fold counter, and cv(X_data, Y_data).
Setup ==
  /\ pc = "setup"
  /\ tagset' = Tagset(y_data)
  /\ evaluation_statistics' = <<>>
  /\ fold' = 1
  /\ groundtruth_by_document' = EmptyByDocument(X_data)
  /\ preds_by_document' = EmptyByDocument(X_data)
  /\ cv_calls' = cv_calls + 1
  /\ IF CVFolds(X_data, num_folds) = {}
       THEN /\ folds' = <<>>
            /\ error' = "SplitterError"
            /\ pc' = "raised"
       ELSE /\ folds' \in CVFolds(X_data, num_folds)
            /\ error' = None
            /\ pc' = "fold"
  /\ UNCHANGED <<objVars, preVars, scanVars, argVars, preprocess_calls, learners,
                 y_pred, statistics_all_folds, directories, files>>

\* One iteration of the loop over the folds, the learner fitting and
\* predicting without failure.
Fold ==
  /\ pc = "fold"
  /\ fold <= Len(folds)
  /\ LET train_indices == folds[fold].train
         test_indices  == folds[fold].test
         X_train == Pick(X_data, train_indices)
         y_train == Pick(y_data, train_indices)
         X_test  == Pick(X_data, test_indices)
         y_test  == Pick(y_data, test_indices)
         train_data == [k \in DOMAIN X_train |-> Py(X_train[k], 0)]
         test_data  == [k \in DOMAIN X_test |-> Py(X_test[k], 0)]
     IN \E predicted \in LearnerPredictions(y_train, test_data) :
          /\ y_pred' = predicted
          /\ groundtruth_by_document' =
               IF groundtruth_directory # None
                 THEN Reconstruct(Flat(y_test), SpanIndices(X_test),
                                  DocumentIndices(X_test), groundtruth_by_document)
                 ELSE groundtruth_by_document
          /\ preds_by_document' =
               IF prediction_directory # None
                 THEN Reconstruct(Flat(predicted), SpanIndices(X_test),
                                  DocumentIndices(X_test), preds_by_document)
                 ELSE preds_by_document
          /\ evaluation_statistics' =
               Append(evaluation_statistics, FoldStatistics(tagset, y_test, predicted))
  /\ learners' = learners + 1
  /\ fold' = fold + 1
  /\ UNCHANGED <<objVars, preVars, scanVars, pc, argVars, preprocess_calls,
                 cv_calls, tagset, folds, statistics_all_folds, directories,
                 files, error>>

\* The failure of the learner caught and the fold skipped.
FoldFailsSwallowed ==
  /\ pc = "fold"
  /\ fold <= Len(folds)
  /\ learners' = learners + 1
  /\ error' = "LearnerError"
  /\ evaluation_statistics' =
       Append(evaluation_statistics, FoldStatistics(tagset, <<>>, <<>>))
  /\ fold' = fold + 1
  /\ UNCHANGED <<objVars, preVars, accVars, scanVars, pc, argVars,
                 preprocess_calls, cv_calls, tagset, folds, y_pred,
                 statistics_all_folds, directories, files>>

\* One iteration of the loop over the folds in which learner.fit or
\* learner.predict raises.
FoldFails ==
  /\ pc = "fold"
  /\ fold <= Len(folds)
  /\ learners' = learners + 1
  /\ error' = "LearnerError"
  /\ pc' = "raised"
  /\ UNCHANGED <<objVars, preVars, accVars, scanVars, argVars, preprocess_calls,
                 cv_calls, tagset, folds, fold, y_pred, evaluation_statistics,
                 statistics_all_folds, directories, files>>

\* After the last fold: the statistics of all folds and their table.
Aggregate ==
  /\ pc = "fold"
  /\ fold > Len(folds)
  /\ statistics_all_folds' = StatisticsAllFolds(tagset, evaluation_statistics)
  /\ pc' = IF Truthy(prediction_directory) THEN "write" ELSE "returned"
  /\ UNCHANGED <<objVars, preVars, accVars, scanVars, argVars, preprocess_calls,
                 cv_calls, learners, tagset, folds, fold, y_pred,
                 evaluation_statistics, directories, files, error>>

\* if prediction_directory: both local names are bound to the sub-directories
\* of the dataset's data_directory, the two directories are made, then the
\* groundtruth files and then the prediction files are written.
WriteAnnotations ==
  /\ pc = "write"
  /\ LET pred_path == PathJoin(training_dataset.data_directory, "predictions")
         gt_path   == PathJoin(training_dataset.data_directory, "groundtruth")
         made1 == CreateAnnotationDirectory(pred_path, training_dataset,
                                            "predictions", directories)
         made2 == CreateAnnotationDirectory(gt_path, training_dataset,
                                            "groundtruth", made1.directories)
         wrote1 == PredictAnnotationEvaluation(gt_path, training_dataset.data_files,
                                               preds_by_document,
                                               groundtruth_by_document,
                                               "groundtruth", files)
         wrote2 == PredictAnnotationEvaluation(pred_path, training_dataset.data_files,
                                               preds_by_document,
                                               groundtruth_by_document,
                                               "predictions", wrote1.files)
     IN /\ directories' = made2.directories
        /\ IF wrote1.error # None
             THEN /\ files' = wrote1.files
                  /\ error' = wrote1.error
                  /\ pc' = "raised"
             ELSE /\ files' = wrote2.files
                  /\ error' = wrote2.error
                  /\ pc' = IF wrote2.error # None THEN "raised" ELSE "returned"
  /\ UNCHANGED <<objVars, preVars, accVars, scanVars, argVars, preprocess_calls,
                 cv_calls, learners, tagset, folds, fold, y_pred,
                 evaluation_statistics, statistics_all_folds>>

Next ==
  \/ CheckArguments
  \/ Preprocess
  \/ Setup
  \/ Fold
  \/ FoldFails
  \/ Aggregate
  \/ WriteAnnotations

Spec == Init /\ [][Next]_vars

EmptyLabelSpec == EmptyLabelInit /\ [][Next]_vars

\* ------------------------------------------------------------------ claims

\* The accumulator the scanned loop appends to.
ScanAcc ==
  IF target = "groundtruth" THEN groundtruth_by_document ELSE preds_by_document

\* The maximal runs of equal labels other than 'O' of a stream, stated
\* without the loop: <<a, b>> with 1 <= a <= b <= len, positions from 1.
MaximalRuns(labels) ==
  {r \in (DOMAIN labels) \X (DOMAIN labels) :
     /\ r[1] <= r[2]
     /\ labels[r[1]] # "O"
     /\ \A k \in r[1]..r[2] : labels[k] = labels[r[1]]
     /\ (r[1] = 1 \/ labels[r[1] - 1] # labels[r[1]])
     /\ (r[2] = Len(labels) \/ labels[r[2] + 1] # labels[r[1]])}

\* The spans of the maximal runs whose first token is of document d, from
\* left to right.
RunSpans(labels, spans, docs, d) ==
  LET first == SetToSortedSeq({r[1] : r \in {q \in MaximalRuns(labels) :
                                                docs[q[1]] = d}})
      EndOf(a) == CHOOSE b \in DOMAIN labels : <<a, b>> \in MaximalRuns(labels)
  IN [k \in 1..Len(first) |->
        <<labels[first[k]], spans[first[k]][1], spans[EndOf(first[k])][2]>>]

\* C1: when the loop over a flattened test stream has ended, the accumulator
\* of the loop (gold or predicted) holds, per document, exactly one span
\* (label, start of the run's first token, end of the run's last token) for
\* every maximal run of equal non-'O' labels, from left to right; 'O' tokens
\* give nothing, adjacent runs of different labels give two spans, and the
\* other accumulator is left alone.
C1_OneSpanPerMaximalRun ==
  scan_pc = "done" =>
    /\ \A d \in DOMAIN ScanAcc :
         ScanAcc[d] = RunSpans(stream, span_indices, document_indices, d)
    /\ \A d \in DOMAIN ScanAcc :
         (IF target = "groundtruth" THEN preds_by_document
                                    ELSE groundtruth_by_document)[d] = <<>>

\* A finished scan of a stream with a merged run directly followed by a run
\* of another label, and an 'O' token.
C1_Witness ==
  /\ scan_pc = "done"
  /\ \E k \in DOMAIN stream :
       /\ k + 2 \in DOMAIN stream
       /\ stream[k] # "O"
       /\ stream[k + 1] = stream[k]
       /\ stream[k + 2] \notin {"O", stream[k]}
  /\ \E k \in DOMAIN stream : stream[k] = "O"

\* C2: the loop reads no index past the end of the stream, makes at most one
\* iteration per token, and when the stream ends with a label other than
\* 'O' the span appended last closes at the end offset of the final token.
C2_TrailingRunClosed ==
  /\ top < Len(stream)
  /\ i <= Len(stream)
  /\ iters <= Len(stream)
  /\ (scan_pc = "done" /\ stream # <<>> /\ Last(stream) # "O") =>
       LET n == Len(stream)
           a == CHOOSE k \in 1..n :
                  /\ \A m \in k..n : stream[m] = stream[n]
                  /\ (k = 1 \/ stream[k - 1] # stream[n])
           d == document_indices[a]
       IN /\ ScanAcc[d] # <<>>
          /\ Last(ScanAcc[d]) = <<stream[n], span_indices[a][1], span_indices[n][2]>>

\* A finished scan of the predicted stream whose last two tokens form a run.
C2_Witness ==
  /\ scan_pc = "done"
  /\ target = "predictions"
  /\ Len(stream) >= 3
  /\ Last(stream) # "O"
  /\ stream[Len(stream) - 1] = Last(stream)
  /\ stream[Len(stream) - 2] = "O"

\* ---- cross_validate

\* The configuration cross_validate is to reject.
InvalidConfiguration ==
  \/ num_folds <= 1
  \/ /\ training_dataset = NoDataset
     /\ (prediction_directory # None \/ groundtruth_directory # None)

\* C3: with num_folds <= 1, or with a prediction or groundtruth directory
\* given and no training dataset, every step of the call ends it with a
\* ValueError and leaves X_data, y_data and the model as they were, with no
\* preprocess run, no call of the fold splitter, no learner created and no
\* directory or file written.
C3_RejectsBeforeSideEffects ==
  [][InvalidConfiguration =>
       /\ pc' = "raised"
       /\ error' = "ValueError"
       /\ X_data' = X_data
       /\ y_data' = y_data
       /\ model' = model
       /\ preprocess_calls' = 0
       /\ cv_calls' = 0
       /\ learners' = 0
       /\ directories' = {}
       /\ files' = {}]_vars

\* A call with enough folds and a groundtruth directory but no dataset has
\* been rejected, the data of an earlier call still in the object.
C3_Witness ==
  /\ pc = "raised"
  /\ error = "ValueError"
  /\ num_folds > 1
  /\ training_dataset = NoDataset
  /\ prediction_directory = None
  /\ groundtruth_directory # None
  /\ X_data # <<>>
  /\ preprocess_calls = 0

\* The test stream of the fold f: its sequences and their gold labels.
TestX(f) == Pick(X_data, folds[f].test)
TestY(f) == Pick(y_data, folds[f].test)

\* C4: a fold processed with a groundtruth or a prediction directory
\* requested (either one) appends, per document, the spans of the fold's
\* gold stream to groundtruth_by_document and the spans of the fold's
\* predicted stream to preds_by_document.
C4_BothStreamsReconstructed ==
  [][(/\ pc = "fold"
      /\ fold' = fold + 1
      /\ (groundtruth_directory # None \/ prediction_directory # None)) =>
       \A d \in DOMAIN groundtruth_by_document :
         /\ groundtruth_by_document'[d] =
              groundtruth_by_document[d]
                \o RunSpans(Flat(TestY(fold)), SpanIndices(TestX(fold)),
                            DocumentIndices(TestX(fold)), d)
         /\ preds_by_document'[d] =
              preds_by_document[d]
                \o RunSpans(Flat(y_pred'), SpanIndices(TestX(fold)),
                            DocumentIndices(TestX(fold)), d)]_vars

\* Every fold of the call has been processed.
AllFoldsSucceeded == folds # <<>> /\ fold = Len(folds) + 1

\* The documents of the files of the option ("groundtruth", "predictions")
\* in the directory dir.
DocumentsWritten(dir, option) ==
  {f.document : f \in {g \in files : g.directory = dir /\ g.option = option}}

\* C5: a call with a training dataset and a prediction or a groundtruth
\* directory requested whose folds all succeeded ends with two directories,
\* one of groundtruth files and one of prediction files, each with exactly
\* one file <document>.ann per document of the dataset.
C5_OneFilePerDocument ==
  (/\ pc \in {"returned", "raised"}
   /\ AllFoldsSucceeded
   /\ training_dataset # NoDataset
   /\ (prediction_directory # None \/ groundtruth_directory # None)) =>
    LET documents == {training_dataset.data_files[k].file_name :
                        k \in DOMAIN training_dataset.data_files}
    IN /\ pc = "returned"
       /\ \E gt \in directories, pred \in directories :
            /\ gt # pred
            /\ DocumentsWritten(gt, "groundtruth") = documents
            /\ DocumentsWritten(pred, "predictions") = documents
            /\ Cardinality(files) = 2 * Cardinality(documents)
            /\ \A f \in files : f.path = PathJoin(f.directory, f.document \o ".ann")

\* C6: the files of a call that was given a path as prediction_directory
\* (as groundtruth_directory) are in that directory; the sub-directories of
\* the dataset's data_directory are used only without such a path.
C6_CallerDirectoryUsed ==
  pc = "returned" =>
    \A f \in files :
      /\ (f.option = "predictions" /\ IsStr(prediction_directory)) =>
            f.directory = prediction_directory
      /\ (f.option = "groundtruth" /\ IsStr(groundtruth_directory)) =>
            f.directory = groundtruth_directory

\* C7: when preprocess has left X_data and y_data empty, the call ends with
\* an error without the fold splitter having been called and without a
\* learner having been created.
C7_EmptyDataAborts ==
  (/\ pc \notin {"start", "preprocess", "setup"}
   /\ training_dataset # NoDataset
   /\ preprocess_calls > 0
   /\ X_data = <<>>
   /\ y_data = <<>>) =>
    /\ pc = "raised"
    /\ cv_calls = 0
    /\ learners = 0

\* C8: once the statistics of all folds are computed there is one row per
\* label of the tagset and one for 'system'; in every row the minimum, the
\* maximum and the mean of f1 and of precision are those of the values of
\* the folds, one per fold of the call, and minimum <= mean <= maximum.
C8_MinAverageMax ==
  statistics_all_folds # <<>> =>
    /\ DOMAIN statistics_all_folds = {tagset[k] : k \in DOMAIN tagset} \cup {"system"}
    /\ Len(evaluation_statistics) = num_folds
    /\ \A label \in DOMAIN statistics_all_folds :
         \A name \in {"f1", "precision"} :
           LET row  == statistics_all_folds[label]
               min  == IF name = "f1" THEN row.f1_min ELSE row.precision_min
               max  == IF name = "f1" THEN row.f1_max ELSE row.precision_max
               avg  == IF name = "f1" THEN row.f1_average ELSE row.precision_average
               Value(f) == evaluation_statistics[f][label][name]
           IN /\ \E f \in 1..num_folds : Value(f) = min
              /\ \E f \in 1..num_folds : Value(f) = max
              /\ \A f \in 1..num_folds : min <= Value(f) /\ Value(f) <= max
              /\ avg.den = num_folds
              /\ avg.num = SumSeq([f \in 1..num_folds |-> Value(f)])
              /\ min * avg.den <= avg.num
              /\ avg.num <= max * avg.den

\* The statistics of a call with two labels in the tagset are computed, the
\* f1 of a label being larger in the first fold than in a later one, so
\* that its mean lies strictly between its minimum and its maximum.
C8_Witness ==
  /\ statistics_all_folds # <<>>
  /\ Len(tagset) = 2
  /\ \E label \in DOMAIN statistics_all_folds :
       LET row == statistics_all_folds[label]
       IN /\ row.f1_min * row.f1_average.den < row.f1_average.num
          /\ row.f1_average.num < row.f1_max * row.f1_average.den
          /\ evaluation_statistics[1][label].f1 = row.f1_max
          /\ row.precision_min < row.precision_max

\* The spans reconstructed for document d in the folds 1..k, in fold order.
RECURSIVE GoldSpansUpTo(_, _)
GoldSpansUpTo(k, d) ==
  IF k = 0 THEN <<>>
  ELSE GoldSpansUpTo(k - 1, d)
         \o (IF groundtruth_directory # None
               THEN RunSpans(Flat(TestY(k)), SpanIndices(TestX(k)),
                             DocumentIndices(TestX(k)), d)
               ELSE <<>>)

\* The tokens of the dataset with a gold label other than 'O', as
\* <<document, span>>.
GoldEntityTokens ==
  UNION {{<<Py(X_data[s], 2), Py(X_data[s], 1)[t]>> :
            t \in {u \in DOMAIN y_data[s] : y_data[s][u] # "O"}} :
         s \in DOMAIN X_data}

\* C9: after k folds the span list of every document is the concatenation,
\* in fold order, of the spans reconstructed for it in the folds 1..k; and
\* after the last fold of a call with a groundtruth directory every token of
\* the dataset with a gold label other than 'O' lies within exactly one span
\* of its document in groundtruth_by_document.
C9_AccumulatedAndCovered ==
  (pc \in {"fold", "write", "returned"} /\ folds # <<>>) =>
    /\ \A d \in DOMAIN groundtruth_by_document :
         groundtruth_by_document[d] = GoldSpansUpTo(fold - 1, d)
    /\ (AllFoldsSucceeded /\ groundtruth_directory # None) =>
         \A tok \in GoldEntityTokens :
           LET spans == groundtruth_by_document[tok[1]]
           IN Cardinality({k \in DOMAIN spans :
                             spans[k][2] <= tok[2][1] /\ tok[2][2] <= spans[k][3]}) = 1

\* C11: a failure of the learner in a fold ends the call at once: the fold
\* that failed is the last one started, it left no statistics, the
\* statistics of all folds are not computed and no directory or file is
\* made; directories and files exist only once every fold has been processed
\* and the statistics of all folds are computed.
C11_FailurePropagates ==
  /\ error = "LearnerError" =>
       /\ pc = "raised"
       /\ learners = fold
       /\ Len(evaluation_statistics) = fold - 1
       /\ statistics_all_folds = <<>>
       /\ directories = {}
       /\ files = {}
  /\ (directories # {} \/ files # {}) =>
       /\ AllFoldsSucceeded
       /\ learners = Len(folds)
       /\ statistics_all_folds # <<>>

\* The learner has failed in the second of three folds of a call that was to
\* write its annotations, the first fold having left predicted spans.
C11_Witness ==
  /\ error = "LearnerError"
  /\ fold = 2
  /\ Len(folds) = 3
  /\ Truthy(prediction_directory)
  /\ \E d \in DOMAIN preds_by_document : preds_by_document[d] # <<>>

\* The spans a step has appended to the list of a document.
Appended(before, after) == SubSeq(after, Len(before) + 1, Len(after))

\* Every token of every maximal run of the stream that starts in document d
\* is of document d.
RunsWithin(labels, docs, d) ==
  \A r \in MaximalRuns(labels) :
    docs[r[1]] = d => \A k \in r[1]..r[2] : docs[k] = d

\* C12: the spans a fold appends to groundtruth_by_document[d] (to
\* preds_by_document[d]) are those of the maximal runs of the fold's gold
\* (predicted) stream that start in document d, and every token of such a
\* run, from the one giving the start to the one giving the end, is of
\* document d.
C12_SpansWithinDocument ==
  [][(pc = "fold" /\ fold' = fold + 1) =>
       LET docs  == DocumentIndices(TestX(fold))
           spans == SpanIndices(TestX(fold))
       IN \A d \in DOMAIN groundtruth_by_document :
            /\ groundtruth_directory # None =>
                 /\ Appended(groundtruth_by_document[d], groundtruth_by_document'[d])
                      = RunSpans(Flat(TestY(fold)), spans, docs, d)
                 /\ RunsWithin(Flat(TestY(fold)), docs, d)
            /\ prediction_directory # None =>
                 /\ Appended(preds_by_document[d], preds_by_document'[d])
                      = RunSpans(Flat(y_pred'), spans, docs, d)
                 /\ RunsWithin(Flat(y_pred'), docs, d)]_vars

\* C13: the entity of every span of groundtruth_by_document is a label of
\* the tagset, whatever labels the sequences of the dataset hold, the empty
\* string included.
C13_GoldEntitiesInTagset ==
  \A d \in DOMAIN groundtruth_by_document :
    \A k \in DOMAIN groundtruth_by_document[d] :
      groundtruth_by_document[d][k][1] \in {tagset[j] : j \in DOMAIN tagset}

\* ---- preprocess

\* C10: an asynchronous preprocess ends with the X_data and y_data of a
\* synchronous preprocess of the same dataset, whatever order the workers
\* ended in: the lists are empty from the start of the call until the
\* collecting loop, the collecting loop starts only when every result is
\* ready and has got the files' results in the order of the dataset, and the
\* two lists have one length.
C10_AsyncEqualsSync ==
  /\ pre_pc = "poll" => X_data = <<>> /\ y_data = <<>>
  /\ pre_pc = "collect" =>
       /\ \A k \in DOMAIN ready : ready[k]
       /\ X_data = PreprocessSynchronous(Dataset(SubSeq(training_dataset.data_files, 1, collected))).X
       /\ y_data = PreprocessSynchronous(Dataset(SubSeq(training_dataset.data_files, 1, collected))).y
  /\ pre_pc = "done" =>
       /\ X_data = PreprocessSynchronous(training_dataset).X
       /\ y_data = PreprocessSynchronous(training_dataset).y
       /\ Len(X_data) = Len(y_data)

\* An asynchronous call has ended whose workers ended in another order than
\* the dataset's, on files of different content, after an earlier call had
\* left other data in the lists.
C10_Witness ==
  /\ pre_pc = "done"
  /\ asynchronous
  /\ Len(completed) = 3
  /\ completed[1] = 3
  /\ completed[2] = 1
  /\ X_data # <<>>
  /\ LET data_files == training_dataset.data_files
     IN /\ Len(data_files[1].sentences) # Len(data_files[3].sentences)
        /\ Len(X_data) = Len(data_files[1].sentences)
                           + Len(data_files[2].sentences)
                           + Len(data_files[3].sentences)

====
